---- MODULE Spec2Model ----
(***************************************************************************)
(* Model of the crop-model selection pipeline:                             *)
(*   batch_process_images.py  main, _find_best_crop, _find_crop_models,    *)
(*                            _di_type_from_model, _write_outputs          *)
(*   crop_model4.py / crop_model8.py  crop_image                           *)
(*                                                                         *)
(* Scores are SSIM values in units of 1e-5 (so -1.0 is -100000).           *)
(* Strings are sequences of one-character strings.                         *)
(***************************************************************************)
EXTENDS Integers, Sequences, FiniteSets, TLC

\* ------------------------------------------------------------------ bounds
MaxRows == 2
MaxLen == 3
MaxInt == 12
MaxDim == 16

\* ------------------------------------------------- environment of the model
\* identifiers N of the crop_model<N>.py files that may sit in base_dir
ModelUniverse == {2, 7, 10}
\* SSIM results the scorer may return, in 1e-5 units, inside [-1, 1]
ScoreValues == {-100000, 87000, 91003}

\* best_score = -1.0
InitialBest == -100000

NoneNum == -1
NoPath == [kind |-> "none", uuid |-> 0, model |-> 0]

\* ---------------------------------------------------------------- strings
Digit == <<"0", "1", "2", "3", "4", "5", "6", "7", "8", "9">>

RECURSIVE DecStr(_)
\* str(n) for a natural number n
DecStr(n) == IF n < 10 THEN <<Digit[n + 1]>> ELSE DecStr(n \div 10) \o <<Digit[(n % 10) + 1]>>

\* str(n) for an integer n
StrOfInt(n) == IF n < 0 THEN <<"-">> \o DecStr(0 - n) ELSE DecStr(n)

\* ord(c) for the characters that occur in the model
Ord(c) ==
    CASE c = " " -> 32
      [] c = "+" -> 43
      [] c = "-" -> 45
      [] c = "." -> 46
      [] c = "_" -> 95
      [] c = "a" -> 97
      [] OTHER -> 48 + (CHOOSE d \in 0..9 : Digit[d + 1] = c)

RECURSIVE StrLess(_, _)
\* Python's str.__lt__: lexicographic by code point, a proper prefix is smaller
StrLess(a, b) ==
    IF b = <<>> THEN FALSE
    ELSE IF a = <<>> THEN TRUE
    ELSE IF Ord(Head(a)) # Ord(Head(b)) THEN Ord(Head(a)) < Ord(Head(b))
    ELSE StrLess(Tail(a), Tail(b))

\* the part of the path ".../crop_model<N>.py" that differs between files:
\* the digits of N followed by the "." of the extension
FileKey(n) == DecStr(n) \o <<".">>

RECURSIVE SortedByName(_)
\* sorted(glob.glob(pattern)): ascending string order of the file names
SortedByName(S) ==
    IF S = {} THEN <<>>
    ELSE LET m == CHOOSE x \in S : \A y \in S \ {x} : StrLess(FileKey(x), FileKey(y))
         IN  <<m>> \o SortedByName(S \ {m})

\* _find_crop_models: (model_num, model_file) pairs in sorted file-name order;
\* model_num is the text between "crop_model" and ".py", kept here as the number
\* it spells
FindCropModels(S) == SortedByName(S)

\* ------------------------------------------------------------------ paths
InputPath(u) == [kind |-> "in", uuid |-> u, model |-> 0]
OutputPath(u) == [kind |-> "out", uuid |-> u, model |-> 0]
CropPath(u, m) == [kind |-> "crop", uuid |-> u, model |-> m]

\* ------------------------------------------------------ _di_type_from_model
IsDigit(c) == \E d \in 1..10 : Digit[d] = c

DigitVal(c) == (CHOOSE d \in 1..10 : Digit[d] = c) - 1

RECURSIVE LStrip(_)
LStrip(s) == IF s # <<>> /\ Head(s) = " " THEN LStrip(Tail(s)) ELSE s

RECURSIVE RStrip(_)
RStrip(s) ==
    IF s # <<>> /\ s[Len(s)] = " " THEN RStrip(SubSeq(s, 1, Len(s) - 1)) ELSE s

\* str.strip() for the blank character
Strip(s) == RStrip(LStrip(s))

\* the digit groups accepted by int(): digits, single underscores between digits
WellFormedDigits(b) ==
    /\ b # <<>>
    /\ \A i \in 1..Len(b) : IsDigit(b[i]) \/ b[i] = "_"
    /\ IsDigit(b[1]) /\ IsDigit(b[Len(b)])
    /\ \A i \in 1..(Len(b) - 1) : ~(b[i] = "_" /\ b[i + 1] = "_")

RECURSIVE DigitsValue(_)
DigitsValue(b) ==
    IF b = <<>> THEN 0
    ELSE IF b[Len(b)] = "_" THEN DigitsValue(SubSeq(b, 1, Len(b) - 1))
    ELSE 10 * DigitsValue(SubSeq(b, 1, Len(b) - 1)) + DigitVal(b[Len(b)])

\* int(text) for a str: optional sign, then digits; ok = FALSE is ValueError
ParseInt(text) ==
    LET t == Strip(text)
        signed == t # <<>> /\ Head(t) \in {"+", "-"}
        body == IF signed THEN Tail(t) ELSE t
    IN  IF ~WellFormedDigits(body) THEN [ok |-> FALSE, val |-> 0]
        ELSE [ok |-> TRUE,
              val |-> IF signed /\ Head(t) = "-" THEN 0 - DigitsValue(body)
                      ELSE DigitsValue(body)]

\* a model_num value: an int, or a str given by its characters
IntInput(k) == [kind |-> "int", n |-> k, s |-> <<>>]
StrInput(t) == [kind |-> "str", n |-> 0, s |-> t]

\* str(model_num)
StrOf(model_num) == IF model_num.kind = "int" THEN StrOfInt(model_num.n) ELSE model_num.s

\* the same function with the try/except around int() left out
DiTypeNoCatch(model_num) ==
    LET p == ParseInt(Strip(StrOf(model_num)))
    IN  IF ~p.ok THEN "raised"
        ELSE IF p.val \in {1, 2, 3, 4, 5} THEN "CNH"
        ELSE IF p.val = 6 THEN "CIN"
        ELSE IF p.val = 7 THEN "RG"
        ELSE "None"

\* _di_type_from_model; the result "None" is Python's None
DiTypeFromModel(model_num) ==
    LET p == ParseInt(Strip(StrOf(model_num)))
    IN  IF ~p.ok THEN "None"
        ELSE IF p.val \in {1, 2, 3, 4, 5} THEN "CNH"
        ELSE IF p.val = 6 THEN "CIN"
        ELSE IF p.val = 7 THEN "RG"
        ELSE "None"

\* ------------------------------------------------- crop_model4 / crop_model8
Min(a, b) == IF a < b THEN a ELSE b
Max(a, b) == IF a > b THEN a ELSE b

\* the proportional bounds of the two models, in thousandths
Geometry(model) ==
    IF model = 4 THEN [left |-> 150, right |-> 390, top |-> 270, bottom |-> 327]
    ELSE [left |-> 140, right |-> 710, top |-> 350, bottom |-> 470]

\* int(n * p) for the proportion p/1000.  For every n in 0..179 and each of the
\* eight proportions the double product truncates to the exact floor.
Trunc(n, p) == (n * p) \div 1000

\* number of indices selected by the slice a:b of an axis of length n (a, b >= 0)
SliceLen(a, b, n) == Max(0, Min(b, n) - Min(a, n))

\* the emptiness test with strict comparisons
DegenerateStrict(x_min, x_max, y_min, y_max) == x_max < x_min \/ y_max < y_min

\* if x_max <= x_min or y_max <= y_min
Degenerate(x_min, x_max, y_min, y_max) == x_max <= x_min \/ y_max <= y_min

CropOutcome(st, cols, rows, x0, x1, y0, y1) ==
    [status |-> st, cols |-> cols, rows |-> rows,
     x_min |-> x0, x_max |-> x1, y_min |-> y0, y_max |-> y1]

NoCrop == CropOutcome("pending", 0, 0, 0, 0, 0, 0)

\* crop_image(input_path, output_path) on an image that imread decodes to
\* w x h pixels (readable) or fails to decode; writeOk is cv2.imwrite's result
CropImage(model, readable, w, h, writeOk) ==
    IF ~readable THEN CropOutcome("raise_read", 0, 0, 0, 0, 0, 0)
    ELSE
      LET g == Geometry(model)
          left == Trunc(w, g.left)
          right == Trunc(w, g.right)
          top == Trunc(h, g.top)
          bottom == Trunc(h, g.bottom)
          x_min == Max(0, Min(left, right))
          y_min == Max(0, Min(top, bottom))
          x_max == Min(w, Max(left, right))
          y_max == Min(h, Max(top, bottom))
      IN  IF Degenerate(x_min, x_max, y_min, y_max)
          THEN CropOutcome("raise_invalid", 0, 0, x_min, x_max, y_min, y_max)
          ELSE IF ~writeOk
          THEN CropOutcome("raise_write", 0, 0, x_min, x_max, y_min, y_max)
          ELSE CropOutcome("returned", SliceLen(x_min, x_max, w), SliceLen(y_min, y_max, h),
                           x_min, x_max, y_min, y_max)

\* ------------------------------------------------------------------- state
VARIABLES
    pc,              \* position of main: start, download, select, model, rename,
                     \* upload, record, write, return, done, crashed (idle: not run)
    rows,            \* result of _read_json_rows: conference_uuid of each row
    rowIdx,          \* index of the row the for-loop of main is at
    modelFiles,      \* N of the crop_model<N>.py files present in base_dir
    masks,           \* N of the mask_<N>.jpg / .JPG files present in MASKS_DIR
    files,           \* regular files present in TEMP_DIR
    s3,              \* rows whose cropped image has been uploaded
    models,          \* _find_best_crop: models
    mi,              \* _find_best_crop: position of the for-loop in models
    best_score,      \* _find_best_crop: best_score
    best_crop_path,  \* _find_best_crop: best_crop_path
    best_model_num,  \* _find_best_crop: best_model_num
    temp_crops,      \* _find_best_crop: temp_crops
    output_rows,     \* main: output_rows
    failures,        \* main: failures
    report,          \* output.json: written flag and the dumped document
    exitCode,        \* value returned by main (NoneNum while running)
    attempted,       \* history: models the current call entered the loop body for
    scored,          \* history: model -> score for the models the current call scored
    written,         \* history: crop files the current call wrote into TEMP_DIR
    outcome,         \* history: how the current/last _find_best_crop call ended
    processed,       \* history: rows that left the loop body, in order
    di_in, di_out,   \* _di_type_from_model: argument and result
    cv_model, cv_readable, cv_w, cv_h, cv_out   \* crop_image: model, image, result

mainVars == <<pc, rows, rowIdx, modelFiles, masks, files, s3, models, mi, best_score,
              best_crop_path, best_model_num, temp_crops, output_rows, failures,
              report, exitCode, attempted, scored, written, outcome, processed>>
diVars == <<di_in, di_out>>
cvVars == <<cv_model, cv_readable, cv_w, cv_h, cv_out>>
vars == <<mainVars, diVars, cvVars>>

selVars == <<models, mi, best_score, best_crop_path, best_model_num, temp_crops>>
histVars == <<attempted, scored, written, outcome>>
envVars == <<rows, modelFiles, masks>>

EmptyScores == [m \in {} |-> 0]
NoReport == [written |-> FALSE, doc |-> <<>>]

RECURSIVE RowsUpTo(_)
RowsUpTo(n) == IF n = 0 THEN <<>> ELSE Append(RowsUpTo(n - 1), n)

DiIdle == di_in = IntInput(0) /\ di_out = "idle"
CvIdle == cv_model = 4 /\ cv_readable = FALSE /\ cv_w = 1 /\ cv_h = 1 /\ cv_out = NoCrop

MainFields(p) ==
    /\ pc = p
    /\ rowIdx = 0
    /\ files = {}
    /\ s3 = {}
    /\ models = <<>>
    /\ mi = 0
    /\ best_score = InitialBest
    /\ best_crop_path = NoPath
    /\ best_model_num = NoneNum
    /\ temp_crops = <<>>
    /\ output_rows = <<>>
    /\ failures = <<>>
    /\ report = NoReport
    /\ exitCode = NoneNum
    /\ attempted = <<>>
    /\ scored = EmptyScores
    /\ written = {}
    /\ outcome = "none"
    /\ processed = <<>>

MainIdle == MainFields("idle") /\ rows = <<>> /\ modelFiles = {} /\ masks = {}

\* rows are distinct conference_uuids (deduplicated by _read_json_rows); masks
\* of absent models are never looked at, so masks range over the models present
Init ==
    /\ MainFields("start")
    /\ \E n \in 0..MaxRows : rows = RowsUpTo(n)
    /\ modelFiles \in SUBSET ModelUniverse
    /\ masks \in SUBSET modelFiles
    /\ DiIdle
    /\ CvIdle

\* --------------------------------------------------------------------- main
uuid == rows[rowIdx]

\* pc after the body of the for-loop ended for row i of n: next row, or the
\* statement after the loop
AfterRow(i, n) == IF i < n THEN "download" ELSE "write"

\* a loop whose except clause leaves the loop
AfterFailureBreak(i, n) == "write"

\* pc after the except clause of row i of n ran
AfterFailure(i, n) == AfterRow(i, n)

\* return value of main once the report was written
ExitCode(fails) == 0

\* an except clause that swallows the exception without recording the row
RowFailedSilent(reason) ==
    /\ failures' = failures
    /\ processed' = Append(processed, uuid)
    /\ pc' = AfterFailure(rowIdx, Len(rows))
    /\ rowIdx' = rowIdx + 1

\* except Exception as exc: failures.append(...); the loop goes on
RowFailed(reason) ==
    /\ failures' = Append(failures, [conference_uuid |-> uuid, error |-> reason])
    /\ processed' = Append(processed, uuid)
    /\ pc' = AfterFailure(rowIdx, Len(rows))
    /\ rowIdx' = rowIdx + 1

\* input.json missing, or no valid rows: return 1
MainNoInput ==
    /\ pc = "start"
    /\ \E json_exists \in BOOLEAN :
         /\ ~json_exists \/ rows = <<>>
         /\ pc' = "done"
         /\ exitCode' = 1
    /\ UNCHANGED <<envVars, rowIdx, files, s3, selVars, output_rows, failures, report,
                   histVars, processed, diVars, cvVars>>

\* _prepare_temp_dir, boto3 client, _s3_cleanup_prefix; an exception here is
\* not caught
MainSetup ==
    /\ pc = "start"
    /\ rows # <<>>
    /\ \E ok \in BOOLEAN :
         IF ok THEN pc' = "download" /\ rowIdx' = 1
         ELSE pc' = "crashed" /\ rowIdx' = rowIdx
    /\ files' = {}
    /\ UNCHANGED <<envVars, s3, selVars, output_rows, failures, report, exitCode,
                   histVars, processed, diVars, cvVars>>

\* _download_image
Download ==
    /\ pc = "download"
    /\ \E ok \in BOOLEAN :
         IF ok
         THEN /\ files' = files \cup {InputPath(uuid)}
              /\ pc' = "select"
              /\ UNCHANGED <<rowIdx, failures, processed>>
         ELSE /\ RowFailed("download")
              /\ UNCHANGED files
    /\ UNCHANGED <<envVars, s3, selVars, output_rows, report, exitCode, histVars,
                   diVars, cvVars>>

\* ---------------------------------------------------------- _find_best_crop
model_num == models[mi]
crop_path == CropPath(uuid, model_num)

\* a comparison against the initial value instead of the running best
BetterThanInitial(score, best) == score > InitialBest

\* if score > best_score
Better(score, best) == score > best

\* models = _find_crop_models(base_dir); raise if empty; initialise the locals
SelectBegin ==
    /\ pc = "select"
    /\ models' = FindCropModels(modelFiles)
    /\ mi' = 1
    /\ best_score' = InitialBest
    /\ best_crop_path' = NoPath
    /\ best_model_num' = NoneNum
    /\ temp_crops' = <<>>
    /\ attempted' = <<>>
    /\ scored' = EmptyScores
    /\ written' = {}
    /\ IF modelFiles = {}
       THEN outcome' = "raised_no_models" /\ RowFailed("no_models")
       ELSE /\ outcome' = "running"
            /\ pc' = "model"
            /\ UNCHANGED <<rowIdx, failures, processed>>
    /\ UNCHANGED <<envVars, files, s3, output_rows, report, exitCode, diVars, cvVars>>

InLoop == pc = "model" /\ mi <= Len(models)

LoopFrame ==
    /\ mi' = mi + 1
    /\ attempted' = Append(attempted, model_num)
    /\ UNCHANGED <<pc, envVars, rowIdx, s3, models, output_rows, failures, report,
                   exitCode, outcome, processed, diVars, cvVars>>

\* _load_crop_module raises: caught, next model (crop_path not yet appended)
ModelLoadFails ==
    /\ InLoop
    /\ LoopFrame
    /\ UNCHANGED <<files, best_score, best_crop_path, best_model_num, temp_crops,
                   scored, written>>

\* crop_image raises (unreadable source, invalid coordinates, failed write):
\* caught, next model; a failed write may or may not leave a file behind
ModelCropFails ==
    /\ InLoop
    /\ LoopFrame
    /\ temp_crops' = Append(temp_crops, crop_path)
    /\ \E partial \in BOOLEAN :
         IF partial
         THEN files' = files \cup {crop_path} /\ written' = written \cup {crop_path}
         ELSE UNCHANGED <<files, written>>
    /\ UNCHANGED <<best_score, best_crop_path, best_model_num, scored>>

\* crop written, neither mask_<N>.jpg nor mask_<N>.JPG exists: warning, continue
ModelMaskMissing ==
    /\ InLoop
    /\ model_num \notin masks
    /\ LoopFrame
    /\ temp_crops' = Append(temp_crops, crop_path)
    /\ files' = files \cup {crop_path}
    /\ written' = written \cup {crop_path}
    /\ UNCHANGED <<best_score, best_crop_path, best_model_num, scored>>

\* crop written, mask found, _compare_ssim raises: caught, next model
ModelScoreFails ==
    /\ InLoop
    /\ model_num \in masks
    /\ LoopFrame
    /\ temp_crops' = Append(temp_crops, crop_path)
    /\ files' = files \cup {crop_path}
    /\ written' = written \cup {crop_path}
    /\ UNCHANGED <<best_score, best_crop_path, best_model_num, scored>>

\* crop written, mask found, score computed and compared with the running best
ModelScored ==
    /\ InLoop
    /\ model_num \in masks
    /\ LoopFrame
    /\ temp_crops' = Append(temp_crops, crop_path)
    /\ files' = files \cup {crop_path}
    /\ written' = written \cup {crop_path}
    /\ \E score \in ScoreValues :
         /\ scored' = scored @@ (model_num :> score)
         /\ IF Better(score, best_score)
            THEN /\ best_score' = score
                 /\ best_crop_path' = crop_path
                 /\ best_model_num' = model_num
            ELSE UNCHANGED <<best_score, best_crop_path, best_model_num>>

LoopDone == pc = "model" /\ mi > Len(models)

\* if best_crop_path is None: raise
SelectNoValid ==
    /\ LoopDone
    /\ best_crop_path = NoPath
    /\ outcome' = "raised_no_valid"
    /\ RowFailed("no_valid_crop")
    /\ UNCHANGED <<envVars, files, s3, selVars, output_rows, report, exitCode,
                   attempted, scored, written, diVars, cvVars>>

\* the entries of temp_crops the cleanup loop calls os.remove on
Removable(i) == temp_crops[i] # best_crop_path /\ temp_crops[i] \in files

\* the files removed by the first k iterations of the cleanup loop
RemovedUpTo(k) == {temp_crops[i] : i \in {j \in 1..k : Removable(j)}}

\* the cleanup loop runs to its end; return (best_crop_path, best_model_num, best_score)
SelectReturn ==
    /\ LoopDone
    /\ best_crop_path # NoPath
    /\ files' = files \ RemovedUpTo(Len(temp_crops))
    /\ outcome' = "returned"
    /\ pc' = "rename"
    /\ UNCHANGED <<envVars, rowIdx, s3, selVars, output_rows, failures, report, exitCode,
                   attempted, scored, written, processed, diVars, cvVars>>

\* os.remove raises at entry k of the cleanup loop: the exception leaves
\* _find_best_crop and is caught by main
SelectRemoveFails ==
    /\ LoopDone
    /\ best_crop_path # NoPath
    /\ \E k \in 1..Len(temp_crops) :
         /\ Removable(k)
         /\ files' = files \ RemovedUpTo(k - 1)
    /\ outcome' = "raised_remove"
    /\ RowFailed("remove")
    /\ UNCHANGED <<envVars, s3, selVars, output_rows, report, exitCode,
                   attempted, scored, written, diVars, cvVars>>

\* ------------------------------------------------------- main, rest of a row
\* round(float(best_score), 4) in 1e-5 units (no score of the model ends in 5)
Round4(x) == ((x + 5) \div 10) * 10

\* if best_crop_path != output_path: remove output_path if present, os.rename
Rename ==
    /\ pc = "rename"
    /\ \E ok \in BOOLEAN :
         IF ok
         THEN /\ files' = IF best_crop_path # OutputPath(uuid)
                          THEN (files \ {best_crop_path}) \cup {OutputPath(uuid)}
                          ELSE files
              /\ pc' = "upload"
              /\ UNCHANGED <<rowIdx, failures, processed>>
         ELSE /\ RowFailed("rename")
              /\ UNCHANGED files
    /\ UNCHANGED <<envVars, s3, selVars, output_rows, report, exitCode, histVars,
                   diVars, cvVars>>

\* _upload_image
Upload ==
    /\ pc = "upload"
    /\ \E ok \in BOOLEAN :
         IF ok
         THEN /\ s3' = s3 \cup {uuid}
              /\ pc' = "record"
              /\ UNCHANGED <<rowIdx, failures, processed>>
         ELSE /\ RowFailed("upload")
              /\ UNCHANGED s3
    /\ UNCHANGED <<envVars, files, selVars, output_rows, report, exitCode, histVars,
                   diVars, cvVars>>

\* _build_output_url, _di_type_from_model, output_rows.append
Record ==
    /\ pc = "record"
    /\ \E ok \in BOOLEAN :
         IF ok
         THEN /\ output_rows' = Append(output_rows,
                    [conference_uuid |-> uuid,
                     cropped_file_url |-> uuid,
                     di_type_optimized |-> DiTypeFromModel(StrInput(DecStr(best_model_num))),
                     best_model |-> DecStr(best_model_num),
                     ssim_score |-> Round4(best_score)])
              /\ processed' = Append(processed, uuid)
              /\ pc' = AfterRow(rowIdx, Len(rows))
              /\ rowIdx' = rowIdx + 1
              /\ UNCHANGED failures
         ELSE /\ RowFailed("url")
              /\ UNCHANGED output_rows
    /\ UNCHANGED <<envVars, files, s3, selVars, report, exitCode, histVars,
                   diVars, cvVars>>

\* _write_outputs(base_dir, output_rows): json.dump of output_rows only; an
\* exception here is not caught
WriteOutputs ==
    /\ pc = "write"
    /\ \E ok \in BOOLEAN :
         IF ok
         THEN report' = [written |-> TRUE, doc |-> output_rows] /\ pc' = "return"
         ELSE report' = report /\ pc' = "crashed"
    /\ UNCHANGED <<envVars, rowIdx, files, s3, selVars, output_rows, failures, exitCode,
                   histVars, processed, diVars, cvVars>>

\* print the failures; return 0
Return ==
    /\ pc = "return"
    /\ exitCode' = ExitCode(failures)
    /\ pc' = "done"
    /\ UNCHANGED <<envVars, rowIdx, files, s3, selVars, output_rows, failures, report,
                   histVars, processed, diVars, cvVars>>

Next ==
    \/ MainNoInput
    \/ MainSetup
    \/ Download
    \/ SelectBegin
    \/ ModelLoadFails
    \/ ModelCropFails
    \/ ModelMaskMissing
    \/ ModelScoreFails
    \/ ModelScored
    \/ SelectNoValid
    \/ SelectReturn
    \/ SelectRemoveFails
    \/ Rename
    \/ Upload
    \/ Record
    \/ WriteOutputs
    \/ Return

Spec == Init /\ [][Next]_vars

\* -------------------------------------- _di_type_from_model on its own inputs
DiAlphabet == {"0", "1", "6", "7", "8", "-", "+", " ", "a", "_"}

DiStrings == UNION {[1..n -> DiAlphabet] : n \in 0..MaxLen}

DiInts == ((0 - MaxInt)..MaxInt) \cup {99}

DiInputs == {IntInput(k) : k \in DiInts} \cup {StrInput(t) : t \in DiStrings}

InitDiType ==
    /\ MainIdle
    /\ CvIdle
    /\ di_in \in DiInputs
    /\ di_out = "pending"

CallDiType ==
    /\ di_out = "pending"
    /\ di_out' = DiTypeFromModel(di_in)
    /\ UNCHANGED <<di_in, mainVars, cvVars>>

NextDiType == CallDiType

SpecDiType == InitDiType /\ [][NextDiType]_vars

\* ----------------------------------------------- crop_image on its own inputs
InitCrop ==
    /\ MainIdle
    /\ DiIdle
    /\ cv_model \in {4, 8}
    /\ cv_readable \in BOOLEAN
    /\ cv_w \in 1..MaxDim
    /\ cv_h \in 1..MaxDim
    /\ cv_out = NoCrop

CallCropImage ==
    /\ cv_out = NoCrop
    /\ \E writeOk \in BOOLEAN :
         cv_out' = CropImage(cv_model, cv_readable, cv_w, cv_h, writeOk)
    /\ UNCHANGED <<cv_model, cv_readable, cv_w, cv_h, mainVars, diVars>>

NextCrop == CallCropImage

SpecCrop == InitCrop /\ [][NextCrop]_vars

\* ================================================================== claims
\* outcomes of a _find_best_crop call that went through the model loop
EndedLoop == {"returned", "raised_no_valid", "raised_remove"}

\* every way a _find_best_crop call ends
Ended == EndedLoop \cup {"raised_no_models"}

\* models of the current call that reached the highest score
TopScorers == {m \in DOMAIN scored : \A o \in DOMAIN scored : scored[m] >= scored[o]}

\* C1: when several scored models share the highest score, the returned
\* best_model_num is the numerically lowest identifier among them (which is
\* what evaluation in ascending numeric order would give).
C1_TieGoesToLowestNumber ==
    outcome = "returned" => \A m \in TopScorers : best_model_num <= m

\* C2: whenever _find_best_crop returns, path, model and score belong to one
\* model, that model was cropped and scored in this call, and its score is at
\* least the score of every model scored in this call; skipped models never win.
C2_ReturnedIsBestScored ==
    outcome = "returned" =>
        /\ best_model_num \in DOMAIN scored
        /\ scored[best_model_num] = best_score
        /\ best_crop_path.kind = "crop"
        /\ best_crop_path.model = best_model_num
        /\ best_crop_path \in written
        /\ \E i \in 1..Len(attempted) : attempted[i] = best_model_num
        /\ \A m \in DOMAIN scored : best_score >= scored[m]

\* C2 witness: a call returned after scoring two models with different scores
\* and skipping a third.
C2_Witness ==
    /\ outcome = "returned"
    /\ Len(attempted) = 3
    /\ Cardinality(DOMAIN scored) = 2
    /\ \E m \in DOMAIN scored : scored[m] < best_score

\* C3: when a call ends, by return or by exception, no crop file it wrote for
\* a non-winning model is left in the temp directory; on return the winner's
\* file exists at best_crop_path.
C3_NoLoserFileLeft ==
    /\ outcome \in Ended => (written \ {best_crop_path}) \cap files = {}
    /\ (outcome = "returned" /\ pc = "rename") => best_crop_path \in files

\* C4: the 'no valid crop' error is raised if and only if no model produced a
\* score in the call.
C4_RaisesIffNothingScored ==
    outcome \in EndedLoop => (outcome = "raised_no_valid" <=> DOMAIN scored = {})

\* C5: a failure while handling one model skips only that model: all models of
\* the list are attempted, and the call returns when another model was scored.
C5_ModelFailureIsolated ==
    outcome \in EndedLoop =>
        /\ Len(attempted) = Len(models)
        /\ (Len(attempted) > Cardinality(DOMAIN scored) /\ DOMAIN scored # {})
              => outcome = "returned"

\* C6: a failing removal of a non-winning temp file is not propagated: the call
\* does not end with that exception and no row is marked failed because of it.
C6_RemoveFailureNotPropagated ==
    /\ outcome # "raised_remove"
    /\ \A i \in 1..Len(failures) : failures[i].error # "remove"

\* C7: a failing row never aborts the batch: rows leave the loop in input
\* order, the process stops abnormally only before the first row or at the
\* report, the report is written only after the last row, and main returns 0
\* whenever the report was written.
C7_RowFailureDoesNotAbort ==
    /\ Len(processed) <= Len(rows)
    /\ processed = SubSeq(rows, 1, Len(processed))
    /\ Len(output_rows) + Len(failures) = Len(processed)
    /\ pc \in {"write", "return"} => Len(processed) = Len(rows)
    /\ pc = "crashed" => (processed = <<>> \/ Len(processed) = Len(rows))
    /\ report.written => Len(processed) = Len(rows)
    /\ (pc = "done" /\ report.written) => exitCode = 0
    /\ (pc = "done" /\ exitCode # 0) => (processed = <<>> /\ ~report.written)

\* C7 witness: main returned 0 after the first row failed and a later row
\* succeeded.
C7_Witness ==
    /\ pc = "done"
    /\ exitCode = 0
    /\ report.written
    /\ Len(rows) >= 2
    /\ \E i \in 1..Len(failures) : failures[i].conference_uuid = rows[1]
    /\ \E j \in 1..Len(output_rows) : output_rows[j].conference_uuid = rows[2]

\* C8: every failed row's identifier (with its reason) is part of the JSON
\* document written as the report.
C8_FailuresInReport ==
    report.written =>
        \A i \in 1..Len(failures) :
            \E j \in 1..Len(report.doc) :
                report.doc[j].conference_uuid = failures[i].conference_uuid

\* C9: _di_type_from_model never raises; 1..5 give "CNH", 6 gives "CIN", 7
\* gives "RG", given as int or as decimal text; every other integer and every
\* non-numeric text give None.
C9_DiTypeTotalMapping ==
    di_out \notin {"idle", "pending"} =>
        /\ di_out \in {"CNH", "CIN", "RG", "None"}
        /\ \A n \in DiInts :
              (di_in = IntInput(n) \/ di_in = StrInput(StrOfInt(n))) =>
                  di_out = (IF n \in 1..5 THEN "CNH"
                            ELSE IF n = 6 THEN "CIN"
                            ELSE IF n = 7 THEN "RG"
                            ELSE "None")
        /\ (di_in.kind = "str" /\ (di_in.s = <<>> \/ \E i \in 1..Len(di_in.s) : di_in.s[i] = "a"))
              => di_out = "None"

\* C9 witness: the function was applied to a text that is not a number.
C9_Witness ==
    /\ di_in = StrInput(<<"a", "7">>)
    /\ di_out = "None"

\* C10 (as stated): for every decodable image of positive size crop_image
\* returns a region of x_max - x_min by y_max - y_min pixels with
\* 0 <= x_min < x_max <= width and 0 <= y_min < y_max <= height (a failing
\* write of the output file set aside).
C10_AlwaysReturnsRegion ==
    (cv_readable /\ cv_out.status \notin {"pending", "raise_write"}) =>
        /\ cv_out.status = "returned"
        /\ cv_out.cols = cv_out.x_max - cv_out.x_min
        /\ cv_out.rows = cv_out.y_max - cv_out.y_min
        /\ 0 <= cv_out.x_min /\ cv_out.x_min < cv_out.x_max /\ cv_out.x_max <= cv_w
        /\ 0 <= cv_out.y_min /\ cv_out.y_min < cv_out.y_max /\ cv_out.y_max <= cv_h

\* widths and heights whose truncated bounds coincide
SmallWidths(model) == IF model = 4 THEN {1, 2} ELSE {1}
SmallHeights(model) == IF model = 4 THEN {1, 2, 3, 4, 5, 6, 8, 9, 12, 15} ELSE {1, 2, 3, 4, 6}

\* C10 (amended): on a decodable image crop_image raises 'Invalid crop
\* coordinates' exactly for the small sizes whose truncated bounds coincide on
\* an axis; otherwise, unless the write fails, it returns a region of
\* x_max - x_min by y_max - y_min pixels with 0 <= x_min < x_max <= width and
\* 0 <= y_min < y_max <= height.
C10_ReturnsRegionUnlessDegenerate ==
    (cv_readable /\ cv_out.status # "pending") =>
        /\ cv_out.status \in {"returned", "raise_invalid", "raise_write"}
        /\ cv_out.status = "raise_invalid"
              <=> (cv_w \in SmallWidths(cv_model) \/ cv_h \in SmallHeights(cv_model))
        /\ cv_out.status = "returned" =>
              /\ cv_out.cols = cv_out.x_max - cv_out.x_min
              /\ cv_out.rows = cv_out.y_max - cv_out.y_min
              /\ 0 <= cv_out.x_min /\ cv_out.x_min < cv_out.x_max /\ cv_out.x_max <= cv_w
              /\ 0 <= cv_out.y_min /\ cv_out.y_min < cv_out.y_max /\ cv_out.y_max <= cv_h

\* C10 witness: crop_model4 returned the 2 x 1 region of a 10 x 10 image.
C10_Witness ==
    /\ cv_model = 4 /\ cv_w = 10 /\ cv_h = 10
    /\ cv_out.status = "returned"
    /\ cv_out.cols = 2 /\ cv_out.rows = 1

\* positions of the entries of a list of row records that carry identifier u
EntriesOf(list, u) == {i \in 1..Len(list) : list[i].conference_uuid = u}

\* C11: at every point of main each row that left the loop body is in exactly
\* one of output_rows and failures, rows still to come are in neither, the
\* entries of output_rows are in input-row order, and an entry is appended to
\* output_rows only when the row's winning crop has been renamed to its
\* output path and uploaded.
C11_RowLoopInvariant ==
    /\ [](/\ \A i \in 1..Len(rows) :
               Cardinality(EntriesOf(output_rows, rows[i]))
                 + Cardinality(EntriesOf(failures, rows[i]))
                   = (IF i <= Len(processed) THEN 1 ELSE 0)
          /\ \A i, j \in 1..Len(output_rows) :
               i < j => \E k, l \in 1..Len(rows) :
                           /\ k < l
                           /\ rows[k] = output_rows[i].conference_uuid
                           /\ rows[l] = output_rows[j].conference_uuid
          /\ \A i \in 1..Len(output_rows) : output_rows[i].conference_uuid \in s3)
    /\ [][output_rows' # output_rows =>
            /\ outcome = "returned"
            /\ output_rows' = Append(output_rows, output_rows'[Len(output_rows')])
            /\ output_rows'[Len(output_rows')].conference_uuid = uuid
            /\ output_rows'[Len(output_rows')].best_model = DecStr(best_model_num)
            /\ OutputPath(uuid) \in files
            /\ best_crop_path \notin files
            /\ uuid \in s3]_vars

\* C11 witness: the loop ended with the first row in output_rows (renamed and
\* uploaded) and the second row in failures.
C11_Witness ==
    /\ pc = "write"
    /\ Len(rows) >= 2
    /\ EntriesOf(output_rows, rows[1]) # {}
    /\ EntriesOf(failures, rows[2]) # {}
    /\ rows[1] \in s3
    /\ OutputPath(rows[1]) \in files

====
